---- MODULE Spec2Model ----
(***************************************************************************)
(* Model of src/bot.py: the per-chat conversation store                    *)
(* (ConversationManager), the agent client (GPT5Client.call_agent) and the *)
(* handlers of TelegramBot that use them.                                  *)
(*                                                                         *)
(* Text is modelled by strings and built with \o exactly as the code       *)
(* builds it.  A dict is a function whose DOMAIN is its key set.  Every    *)
(* action is one run of a handler between two of its await points: the     *)
(* handlers are coroutines of one event loop, so the code between two      *)
(* awaits runs without interruption.                                       *)
(***************************************************************************)
EXTENDS Integers, Sequences, FiniteSets, TLC

(***************************************************************************)
(* Bounds of the model.                                                    *)
(***************************************************************************)
\* updates (messages and /resetc commands) delivered in one run
MaxUpdates == 2
\* ConversationManager(max_size): the window capacity N (the code's default
\* is MAX_CONTEXT_SIZE = 10, bot.py:33)
max_size == 2
\* chat ids are 1..MaxChats
MaxChats == 2

Updates == 1..MaxUpdates
Chats == 1..MaxChats
\* texts a user sends (never empty: handle_message and ask_command drop
\* empty texts before process_message is called)
Texts == {"hi"}
\* values of the "id" field of a provider reply
Ids == {"", "i1", "i2"}
\* values of the "message" field of a provider reply
ReplyTexts == {"ok"}

\* Python's None (a value that is no string the program handles)
None == "<None>"
\* Python truthiness of an Optional[str]
Truthy(s) == s # None /\ s # ""

(***************************************************************************)
(* dict helpers                                                            *)
(***************************************************************************)
EmptyDict == [k \in {} |-> None]
Put(d, k, v) == [x \in (DOMAIN d) \cup {k} |-> IF x = k THEN v ELSE d[x]]
Del(d, k) == [x \in (DOMAIN d) \ {k} |-> d[x]]
\* dict.get(k, default)
Get(d, k, default) == IF k \in DOMAIN d THEN d[k] ELSE default

VARIABLES
    contexts,    \* ConversationManager.contexts: chat id -> deque of turns
    parent_ids,  \* ConversationManager.parent_ids: chat id -> id
    now,         \* the clock datetime.now() reads
    pc,          \* where the handler of each update stands
    update,      \* the update each handler was called with
    payload,     \* the JSON body of the request a handler has in flight
    response,    \* what the transport answered to that request
    result,      \* what call_agent returned or raised to the handler
    reply,       \* the text the handler is sending to the chat
    posts,       \* requests posted to the agent endpoint for each handler
    sent,        \* replies delivered to the chat by each handler
    appended     \* per chat, the add_message calls since the chat was
                 \* created or last reset (history variable)

vars == <<contexts, parent_ids, now, pc, update, payload, response, result, reply,
          posts, sent, appended>>

NoUpdate == [kind |-> "none", chat |-> 0, text |-> ""]
NoResult == [raised |-> FALSE, exc |-> "", text |-> "", id |-> ""]
NoResponse == [kind |-> "none", status |-> 0, json |-> "object", data |-> EmptyDict]

(***************************************************************************)
(* ConversationManager                                                     *)
(***************************************************************************)
\* a deque that was given no maxlen
deque_append_unbounded(d, x) == Append(d, x)

\* a full deque that drops the new element instead of the oldest
deque_append_drop_newest(d, x) ==
    IF Len(d) >= max_size THEN d ELSE Append(d, x)

\* collections.deque(maxlen=max_size).append(x)
deque_append(d, x) ==
    IF max_size = 0 THEN <<>>
    ELSE IF Len(d) >= max_size THEN Tail(d) \o <<x>>
    ELSE Append(d, x)

Turn(role, content, timestamp) ==
    [role |-> role, content |-> content, timestamp |-> timestamp]

\* add_message without the "not in" test: every call starts a new deque
add_message_contexts_fresh(ctxs, chat_id, role, content, timestamp) ==
    Put(ctxs, chat_id, deque_append(<<>>, Turn(role, content, timestamp)))

\* add_message, lines 47-54: the new value of self.contexts
add_message_contexts(ctxs, chat_id, role, content, timestamp) ==
    LET d == IF chat_id \in DOMAIN ctxs THEN ctxs[chat_id] ELSE <<>>
    IN  Put(ctxs, chat_id, deque_append(d, Turn(role, content, timestamp)))

\* add_message testing "message_id is not None" instead of its truth
add_message_parent_ids_not_none(pids, chat_id, role, message_id) ==
    IF role = "assistant" /\ message_id # None
    THEN Put(pids, chat_id, message_id)
    ELSE pids

\* add_message letting an assistant turn without an id forget the parent id
add_message_parent_ids_forgetful(pids, chat_id, role, message_id) ==
    IF role # "assistant" THEN pids
    ELSE IF Truthy(message_id) THEN Put(pids, chat_id, message_id)
    ELSE Del(pids, chat_id)

\* add_message, lines 56-58: the new value of self.parent_ids
add_message_parent_ids(pids, chat_id, role, message_id) ==
    IF role = "assistant" /\ Truthy(message_id)
    THEN Put(pids, chat_id, message_id)
    ELSE pids

get_context(ctxs, chat_id) ==
    IF chat_id \notin DOMAIN ctxs THEN <<>> ELSE ctxs[chat_id]

get_parent_id(pids, chat_id) == Get(pids, chat_id, None)

\* clear_context emptying the whole dict
clear_context_contexts_all(ctxs, chat_id) == EmptyDict

\* clear_context: the new value of self.contexts
clear_context_contexts(ctxs, chat_id) ==
    IF chat_id \in DOMAIN ctxs THEN Del(ctxs, chat_id) ELSE ctxs

\* clear_context without its second deletion
clear_context_parent_ids_kept(pids, chat_id) == pids

\* clear_context: the new value of self.parent_ids
clear_context_parent_ids(pids, chat_id) ==
    IF chat_id \in DOMAIN pids THEN Del(pids, chat_id) ELSE pids

\* str.capitalize() on the two roles the program uses
capitalize(s) ==
    CASE s = "user" -> "User"
      [] s = "assistant" -> "Assistant"
      [] OTHER -> s

RECURSIVE format_lines(_)
format_lines(context) ==
    IF context = <<>> THEN ""
    ELSE capitalize(Head(context).role) \o ": " \o Head(context).content \o "\n"
         \o format_lines(Tail(context))

format_context_for_prompt(ctxs, chat_id) ==
    LET context == get_context(ctxs, chat_id)
    IN  IF context = <<>> THEN ""
        ELSE "Previous conversation:\n" \o format_lines(context)

\* process_message, line 221
full_prompt(context_str, user_message) ==
    IF context_str # ""
    THEN context_str \o "\nCurrent message: " \o user_message
    ELSE user_message

(***************************************************************************)
(* GPT5Client.call_agent                                                   *)
(***************************************************************************)
\* a payload that always carries the parent_message_id key
request_payload_always(message, parent_message_id) ==
    ("message" :> message) @@ ("parent_message_id" :> parent_message_id)

\* lines 107-112: the JSON body of the request
request_payload(message, parent_message_id) ==
    IF Truthy(parent_message_id)
    THEN ("message" :> message) @@ ("parent_message_id" :> parent_message_id)
    ELSE ("message" :> message)

\* What the transport can do with one request: session.post raises Timeout,
\* or another RequestException, or returns a response with a status and a
\* parsed JSON body (an object with any of the fields message and id, or a
\* JSON value that is no object).
JsonObjects ==
    {EmptyDict}
    \cup {("message" :> m) : m \in ReplyTexts}
    \cup {("id" :> i) : i \in Ids}
    \cup {("message" :> m) @@ ("id" :> i) : m \in ReplyTexts, i \in Ids}

Responses ==
    {[kind |-> "Timeout", status |-> 0, json |-> "object", data |-> EmptyDict],
     [kind |-> "ConnectionError", status |-> 0, json |-> "object", data |-> EmptyDict],
     [kind |-> "http", status |-> 500, json |-> "object", data |-> EmptyDict],
     [kind |-> "http", status |-> 200, json |-> "array", data |-> EmptyDict]}
    \cup {[kind |-> "http", status |-> 200, json |-> "object", data |-> d] : d \in JsonObjects}

\* The responses the bot's runs draw from: one of each kind of outcome
\* (a timeout, a failed request, a body that is no object, a reply without
\* fields, and replies with two different ids).
AgentResponses ==
    {r \in Responses :
        \/ r.kind = "Timeout"
        \/ r.kind = "http" /\ r.status = 500
        \/ r.kind = "http" /\ r.status = 200 /\ r.json = "array"
        \/ r.kind = "http" /\ r.status = 200 /\ r.json = "object"
           /\ (r.data = EmptyDict
               \/ (DOMAIN r.data = {"message", "id"} /\ r.data["id"] # ""))}

\* str(e) of the RequestException the transport raised
error_detail(resp) ==
    IF resp.kind = "ConnectionError" THEN "Connection refused"
    ELSE "500 Server Error"

\* lines 114-133: what call_agent returns or raises for a response
call_agent(resp) ==
    CASE resp.kind = "Timeout" ->
            [raised |-> TRUE, exc |-> "Exception",
             text |-> "Request timed out. Please try again.", id |-> ""]
      [] resp.kind = "ConnectionError"
         \/ (resp.kind = "http" /\ resp.status >= 400 /\ resp.status < 600) ->
            [raised |-> TRUE, exc |-> "Exception",
             text |-> "Failed to get response from AI: " \o error_detail(resp), id |-> ""]
      [] resp.kind = "http" /\ resp.status < 400 /\ resp.json # "object" ->
            \* data.get on a list: AttributeError, which no except clause
            \* of call_agent catches
            [raised |-> TRUE, exc |-> "AttributeError",
             text |-> "'list' object has no attribute 'get'", id |-> ""]
      [] OTHER ->
            [raised |-> FALSE, exc |-> "",
             text |-> Get(resp.data, "message", "No response"),
             id |-> Get(resp.data, "id", "")]

(***************************************************************************)
(* TelegramBot                                                             *)
(***************************************************************************)
Init ==
    /\ contexts = EmptyDict
    /\ parent_ids = EmptyDict
    /\ now = 0
    /\ pc = [u \in Updates |-> "none"]
    /\ update = [u \in Updates |-> NoUpdate]
    /\ payload = [u \in Updates |-> EmptyDict]
    /\ response = [u \in Updates |-> NoResponse]
    /\ result = [u \in Updates |-> NoResult]
    /\ reply = [u \in Updates |-> ""]
    /\ posts = [u \in Updates |-> 0]
    /\ sent = [u \in Updates |-> 0]
    /\ appended = [c \in Chats |-> <<>>]

\* the updates a chat can send: a text for process_message, or /resetc
Incoming ==
    {[kind |-> "text", chat |-> c, text |-> t] : c \in Chats, t \in Texts}
    \cup {[kind |-> "resetc", chat |-> c, text |-> ""] : c \in Chats}

\* run_polling puts the next update of the platform in the update queue
Arrive(u, upd) ==
    /\ pc[u] = "none"
    /\ \A v \in Updates : v < u => pc[v] # "none"
    /\ pc' = [pc EXCEPT ![u] = "queued"]
    /\ update' = [update EXCEPT ![u] = upd]
    /\ UNCHANGED <<contexts, parent_ids, now, payload, response, result, reply, appended, posts, sent>>

\* u is the oldest update of the queue
QueueHead(u) == pc[u] = "queued" /\ \A v \in Updates : v < u => pc[v] # "queued"

\* a handler is running (it stands at one of its awaits)
Running(u) == pc[u] \in {"typing", "calling", "replying"}

\* process_message up to its first await (send_action)
StartProcessMessage(u) ==
    /\ QueueHead(u)
    /\ update[u].kind = "text"
    /\ pc' = [pc EXCEPT ![u] = "typing"]
    /\ UNCHANGED <<contexts, parent_ids, now, update, payload, response, result, reply, appended, posts, sent>>

\* process_message from the typing indicator to the await of the agent call
PrepareCall(u) ==
    /\ pc[u] = "typing"
    /\ LET chat_id == update[u].chat
           user_message == update[u].text
           ctxs == add_message_contexts(contexts, chat_id, "user", user_message, now)
           pids == add_message_parent_ids(parent_ids, chat_id, "user", None)
           context_str == format_context_for_prompt(ctxs, chat_id)
           parent_id == get_parent_id(pids, chat_id)
       IN  /\ contexts' = ctxs
           /\ parent_ids' = pids
           /\ appended' = [appended EXCEPT ![chat_id] =
                  Append(@, [role |-> "user", content |-> user_message,
                             timestamp |-> now, message_id |-> None])]
           /\ payload' = [payload EXCEPT ![u] = request_payload(full_prompt(context_str, user_message), parent_id)]
    /\ now' = now + 1
    /\ posts' = [posts EXCEPT ![u] = @ + 1]
    /\ pc' = [pc EXCEPT ![u] = "calling"]
    /\ UNCHANGED <<update, response, result, reply, sent>>

\* a handler that drops the reply of a call whose chat was reset meanwhile
CallSucceedsUnlessReset(u, resp) ==
    /\ pc[u] = "calling"
    /\ ~call_agent(resp).raised
    /\ LET chat_id == update[u].chat
           response_text == call_agent(resp).text
           message_id == call_agent(resp).id
           known == chat_id \in DOMAIN contexts
       IN  /\ contexts' = IF known
                          THEN add_message_contexts(contexts, chat_id, "assistant", response_text, now)
                          ELSE contexts
           /\ parent_ids' = IF known
                            THEN add_message_parent_ids(parent_ids, chat_id, "assistant", message_id)
                            ELSE parent_ids
           /\ appended' = IF known
                          THEN [appended EXCEPT ![chat_id] =
                                 Append(@, [role |-> "assistant", content |-> response_text,
                                            timestamp |-> now, message_id |-> message_id])]
                          ELSE appended
           /\ reply' = [reply EXCEPT ![u] = response_text]
    /\ now' = now + 1
    /\ result' = [result EXCEPT ![u] = call_agent(resp)]
    /\ response' = [response EXCEPT ![u] = resp]
    /\ payload' = [payload EXCEPT ![u] = EmptyDict]
    /\ pc' = [pc EXCEPT ![u] = "replying"]
    /\ UNCHANGED <<update, posts, sent>>

\* the agent call returned a reply: process_message records and sends it
CallSucceeds(u, resp) ==
    /\ pc[u] = "calling"
    /\ ~call_agent(resp).raised
    /\ LET chat_id == update[u].chat
           response_text == call_agent(resp).text
           message_id == call_agent(resp).id
       IN  /\ contexts' = add_message_contexts(contexts, chat_id, "assistant", response_text, now)
           /\ parent_ids' = add_message_parent_ids(parent_ids, chat_id, "assistant", message_id)
           /\ appended' = [appended EXCEPT ![chat_id] =
                  Append(@, [role |-> "assistant", content |-> response_text,
                             timestamp |-> now, message_id |-> message_id])]
           /\ reply' = [reply EXCEPT ![u] = response_text]
    /\ now' = now + 1
    /\ result' = [result EXCEPT ![u] = call_agent(resp)]
    /\ response' = [response EXCEPT ![u] = resp]
    /\ payload' = [payload EXCEPT ![u] = EmptyDict]
    /\ pc' = [pc EXCEPT ![u] = "replying"]
    /\ UNCHANGED <<update, posts, sent>>

\* an except clause that records the error text as the assistant's turn
CallFailsRecorded(u, resp) ==
    /\ pc[u] = "calling"
    /\ call_agent(resp).raised
    /\ contexts' = add_message_contexts(contexts, update[u].chat, "assistant",
                                        call_agent(resp).text, now)
    /\ appended' = [appended EXCEPT ![update[u].chat] =
           Append(@, [role |-> "assistant", content |-> call_agent(resp).text,
                      timestamp |-> now, message_id |-> None])]
    /\ now' = now + 1
    /\ result' = [result EXCEPT ![u] = call_agent(resp)]
    /\ response' = [response EXCEPT ![u] = resp]
    /\ reply' = [reply EXCEPT ![u] = "Sorry, an error occurred: " \o call_agent(resp).text]
    /\ payload' = [payload EXCEPT ![u] = EmptyDict]
    /\ pc' = [pc EXCEPT ![u] = "replying"]
    /\ UNCHANGED <<parent_ids, update, posts, sent>>

\* an except clause that logs the error and sends nothing to the chat
CallFailsSilent(u, resp) ==
    /\ pc[u] = "calling"
    /\ call_agent(resp).raised
    /\ payload' = [payload EXCEPT ![u] = EmptyDict]
    /\ posts' = [posts EXCEPT ![u] = 0]
    /\ update' = [update EXCEPT ![u] = NoUpdate]
    /\ pc' = [pc EXCEPT ![u] = "done"]
    /\ UNCHANGED <<contexts, parent_ids, now, response, result, reply, sent, appended>>

\* an except clause that posts the request again instead of reporting
CallFailsRetried(u, resp) ==
    /\ pc[u] = "calling"
    /\ call_agent(resp).raised
    /\ posts' = [posts EXCEPT ![u] = @ + 1]
    /\ UNCHANGED <<contexts, parent_ids, now, pc, update, payload, response, result,
                   reply, sent, appended>>

\* the agent call raised: the except clause of process_message
CallFails(u, resp) ==
    /\ pc[u] = "calling"
    /\ call_agent(resp).raised
    /\ result' = [result EXCEPT ![u] = call_agent(resp)]
    /\ response' = [response EXCEPT ![u] = resp]
    /\ reply' = [reply EXCEPT ![u] = "Sorry, an error occurred: " \o call_agent(resp).text]
    /\ payload' = [payload EXCEPT ![u] = EmptyDict]
    /\ pc' = [pc EXCEPT ![u] = "replying"]
    /\ UNCHANGED <<contexts, parent_ids, now, update, appended, posts, sent>>

\* reset_context_command up to its await (reply_text)
ResetContext(u) ==
    /\ QueueHead(u)
    /\ update[u].kind = "resetc"
    /\ contexts' = clear_context_contexts(contexts, update[u].chat)
    /\ parent_ids' = clear_context_parent_ids(parent_ids, update[u].chat)
    /\ appended' = [appended EXCEPT ![update[u].chat] = <<>>]
    /\ reply' = [reply EXCEPT ![u] = "Conversation context has been cleared."]
    /\ pc' = [pc EXCEPT ![u] = "replying"]
    /\ UNCHANGED <<now, update, payload, response, result, posts, sent>>

\* reply_text returned: the handler ends
Replied(u) ==
    /\ pc[u] = "replying"
    /\ pc' = [pc EXCEPT ![u] = "done"]
    /\ reply' = [reply EXCEPT ![u] = ""]
    /\ result' = [result EXCEPT ![u] = NoResult]
    /\ response' = [response EXCEPT ![u] = NoResponse]
    /\ update' = [update EXCEPT ![u] = NoUpdate]
    /\ posts' = [posts EXCEPT ![u] = 0]
    /\ sent' = [sent EXCEPT ![u] = @ + 1]
    /\ UNCHANGED <<contexts, parent_ids, now, payload, appended>>

\* The handlers as coroutines that the runtime dispatches concurrently: a
\* handler starts as soon as its update heads the queue, and the handlers
\* interleave at their awaits.  Every sequential run is one of these runs.
Next ==
    \/ \E u \in Updates, upd \in Incoming : Arrive(u, upd)
    \/ \E u \in Updates : StartProcessMessage(u)
    \/ \E u \in Updates : PrepareCall(u)
    \/ \E u \in Updates, resp \in AgentResponses : CallSucceeds(u, resp)
    \/ \E u \in Updates, resp \in AgentResponses : CallFails(u, resp)
    \/ \E u \in Updates : ResetContext(u)
    \/ \E u \in Updates : Replied(u)

Spec == Init /\ [][Next]_vars

(***************************************************************************)
(* The dispatcher as run() builds it.  Application.builder() is given no   *)
(* concurrent_updates setting and the handlers are registered blocking, so *)
(* the application awaits the handler of one update to its end before it   *)
(* takes the next update from the queue.                                   *)
(***************************************************************************)
NoHandlerRunning == \A v \in Updates : ~Running(v)

RunStartProcessMessage(u) == NoHandlerRunning /\ StartProcessMessage(u)

RunResetContext(u) == NoHandlerRunning /\ ResetContext(u)

NextRun ==
    \/ \E u \in Updates, upd \in Incoming : Arrive(u, upd)
    \/ \E u \in Updates : RunStartProcessMessage(u)
    \/ \E u \in Updates : PrepareCall(u)
    \/ \E u \in Updates, resp \in AgentResponses : CallSucceeds(u, resp)
    \/ \E u \in Updates, resp \in AgentResponses : CallFails(u, resp)
    \/ \E u \in Updates : RunResetContext(u)
    \/ \E u \in Updates : Replied(u)

SpecRun == Init /\ [][NextRun]_vars

\* The scheduling of the event loop: the application takes the update that
\* heads its queue once no handler runs, an awaited call to the platform
\* (send_action, reply_text) returns, and the agent call returns or raises
\* within REQUEST_TIMEOUT.  Nothing obliges the platform to deliver updates.
RunFairness ==
    \A u \in Updates :
        /\ WF_vars(RunStartProcessMessage(u))
        /\ WF_vars(RunResetContext(u))
        /\ WF_vars(PrepareCall(u))
        /\ WF_vars(\E resp \in AgentResponses : CallSucceeds(u, resp) \/ CallFails(u, resp))
        /\ WF_vars(Replied(u))

LiveSpecRun == Init /\ [][NextRun]_vars /\ RunFairness

(***************************************************************************)
(* GPT5Client.call_agent alone: one invocation with any message and parent *)
(* id, answered by any response of the transport.                          *)
(***************************************************************************)
Messages ==
    Texts \cup {"yo", "Previous conversation:\nUser: hi\n\nCurrent message: hi",
                "Previous conversation:\nUser: hi\nAssistant: ok\n\nCurrent message: yo"}
ParentIds == {None} \cup Ids

CallAgentInvoke(message, parent_message_id) ==
    /\ pc[1] = "none"
    /\ pc' = [pc EXCEPT ![1] = "calling"]
    /\ payload' = [payload EXCEPT ![1] = request_payload(message, parent_message_id)]
    /\ posts' = [posts EXCEPT ![1] = @ + 1]
    /\ UNCHANGED <<contexts, parent_ids, now, update, response, result, reply, appended, sent>>

CallAgentReturn(resp) ==
    /\ pc[1] = "calling"
    /\ pc' = [pc EXCEPT ![1] = "returned"]
    /\ result' = [result EXCEPT ![1] = call_agent(resp)]
    /\ response' = [response EXCEPT ![1] = resp]
    /\ UNCHANGED <<contexts, parent_ids, now, update, payload, reply, appended, posts, sent>>

NextCall ==
    \/ \E m \in Messages, p \in ParentIds : CallAgentInvoke(m, p)
    \/ \E resp \in Responses : CallAgentReturn(resp)

SpecCall == Init /\ [][NextCall]_vars

(***************************************************************************)
(* Properties                                                              *)
(***************************************************************************)
Min(a, b) == IF a <= b THEN a ELSE b

\* the turn an add_message call records
TurnOf(call) == Turn(call.role, call.content, call.timestamp)

\* the turns of the last n calls of a sequence of add_message calls
LastTurns(calls, n) ==
    [i \in 1..n |-> TurnOf(calls[Len(calls) - n + i])]

\* C1: in every reachable state the history of every chat holds at most
\* max_size turns.
C1_WindowBounded ==
    \A c \in Chats : Len(get_context(contexts, c)) <= max_size

\* a chat that received more than max_size appends and holds max_size turns
C1_Witness ==
    \E c \in Chats :
        /\ Len(appended[c]) > max_size
        /\ Len(get_context(contexts, c)) = max_size

\* C2: eviction is FIFO: after m appends since the chat was created or last
\* reset, its history is the last min(m, max_size) appended turns, in append
\* order.
C2_Fifo ==
    \A c \in Chats :
        get_context(contexts, c)
            = LastTurns(appended[c], Min(Len(appended[c]), max_size))

\* T1..T(N+1) were appended to an empty chat and the history is [T2..T(N+1)]
C2_Witness ==
    \E c \in Chats :
        /\ Len(appended[c]) = max_size + 1
        /\ Len(get_context(contexts, c)) = max_size
        /\ \A i \in 1..max_size :
              get_context(contexts, c)[i] = TurnOf(appended[c][i + 1])

\* C3: the prompt of a message is rendered from the history as it is before
\* the message is appended, so its transcript does not hold the message.
C3_PromptRenderedBeforeAppend ==
    [][\A u \in Updates :
         (pc[u] = "typing" /\ pc'[u] = "calling") =>
            payload'[u]["message"]
                = full_prompt(format_context_for_prompt(contexts, update[u].chat),
                              update[u].text)]_vars


\* the id of the most recent assistant call with a non-empty id
LastAssistantId(calls) ==
    LET idx == {i \in 1..Len(calls) :
                  calls[i].role = "assistant" /\ Truthy(calls[i].message_id)}
    IN  IF idx = {} THEN None
        ELSE calls[CHOOSE i \in idx : \A j \in idx : j <= i].message_id

\* C4: the parent id of a chat is the id of the most recent assistant append
\* with a non-empty id since the last reset, absent if there was none: user
\* appends and assistant appends without an id never change it.
C4_ParentIdIsLastAssistantId ==
    \A c \in Chats : get_parent_id(parent_ids, c) = LastAssistantId(appended[c])

\* an assistant append with an id, then a user append, then an assistant
\* append without an id: the parent id is still the first one
C4_Witness ==
    \E c \in Chats :
        /\ Len(appended[c]) >= 4
        /\ appended[c][2].role = "assistant" /\ Truthy(appended[c][2].message_id)
        /\ appended[c][3].role = "user"
        /\ appended[c][4].role = "assistant" /\ appended[c][4].message_id = ""
        /\ get_parent_id(parent_ids, c) = appended[c][2].message_id

\* the handler of u has just run clear_context
ResetStep(u) ==
    pc[u] = "queued" /\ update[u].kind = "resetc" /\ pc'[u] = "replying"

\* C5: clear_context(id) leaves the history of id empty and its parent id
\* absent, whatever the state before; on a chat without state it changes
\* nothing.
C5_ResetClears ==
    [][\A u \in Updates :
         ResetStep(u) =>
            /\ get_context(contexts', update[u].chat) = <<>>
            /\ get_parent_id(parent_ids', update[u].chat) = None
            /\ (get_context(contexts, update[u].chat) = <<>>
                /\ get_parent_id(parent_ids, update[u].chat) = None)
               => (contexts' = contexts /\ parent_ids' = parent_ids)]_vars

\* a reset has run on a chat that had a history and a parent id: a handler
\* of the chat that recorded its turns before the reset is still replying
C5_Witness ==
    \E u, v \in Updates :
        /\ pc[u] = "replying" /\ update[u].kind = "resetc"
        /\ pc[v] = "replying" /\ update[v].kind = "text"
        /\ update[v].chat = update[u].chat
        /\ ~result[v].raised /\ Truthy(result[v].id)
        /\ get_context(contexts, update[u].chat) = <<>>
        /\ get_parent_id(parent_ids, update[u].chat) = None

\* the handler of u has just appended the user's turn and issued its call
PrepareStep(u) == pc[u] = "typing" /\ pc'[u] = "calling"

\* the call of u has just failed
FailStep(u) == pc[u] = "calling" /\ pc'[u] = "replying" /\ result'[u].raised

\* C6: a handler whose agent call fails changes the store only by the
\* user's turn it appended before the call: the failure records no turn and
\* changes no parent id, in its chat or in another.
C6_FailedCallRecordsNothing ==
    [][\A u \in Updates :
         /\ FailStep(u) => (contexts' = contexts /\ parent_ids' = parent_ids)
         /\ PrepareStep(u) =>
              /\ parent_ids' = parent_ids
              /\ contexts' = add_message_contexts(contexts, update[u].chat, "user",
                                                  update[u].text, now)]_vars

\* a call has failed and the last turn of its chat is a user's
C6_Witness ==
    \E u \in Updates :
        /\ pc[u] = "replying" /\ update[u].kind = "text" /\ result[u].raised
        /\ appended[update[u].chat] # <<>>
        /\ appended[update[u].chat][Len(appended[update[u].chat])].role = "user"
        /\ get_context(contexts, update[u].chat) # <<>>

\* C7: with several handlers of a chat in flight, the chat holds as many
\* turns as add_message calls were made for it since its last reset, capped
\* at max_size, and every turn it holds is the turn of exactly one call.
C7_NoLostUpdate ==
    \A c \in Chats :
        LET h == get_context(contexts, c)
        IN  /\ Len(h) = Min(Len(appended[c]), max_size)
            /\ \A i \in 1..Len(h) :
                  Cardinality({j \in 1..Len(appended[c]) : TurnOf(appended[c][j]) = h[i]}) = 1
            /\ \A i, k \in 1..Len(h) : i # k => h[i] # h[k]

\* two handlers of one chat have their calls in flight at once, and a turn
\* was recorded after the second of them started
C7_Witness ==
    \E u, v \in Updates :
        /\ u # v
        /\ pc[u] = "calling" /\ pc[v] = "calling"
        /\ update[u].chat = update[v].chat
        /\ Len(appended[update[u].chat]) >= 2
        /\ Len(get_context(contexts, update[u].chat)) = 2

\* the chat a step of the handler of u works on
StepChat(u) == IF pc[u] = "none" THEN update'[u].chat ELSE update[u].chat

\* C8: a step of a handler for one chat changes neither the history nor the
\* parent id of any other chat.
C8_ChatsIsolated ==
    [][\A u \in Updates :
         pc'[u] # pc[u] =>
            \A d \in Chats \ {StepChat(u)} :
                /\ get_context(contexts', d) = get_context(contexts, d)
                /\ get_parent_id(parent_ids', d) = get_parent_id(parent_ids, d)
                /\ (d \in DOMAIN contexts') = (d \in DOMAIN contexts)
                /\ (d \in DOMAIN parent_ids') = (d \in DOMAIN parent_ids)]_vars

\* a chat was reset while another chat holds a history and a parent id
C8_Witness ==
    \E u \in Updates, d \in Chats :
        /\ pc[u] = "replying" /\ update[u].kind = "resetc"
        /\ d # update[u].chat
        /\ get_context(contexts, d) # <<>>
        /\ get_parent_id(parent_ids, d) # None

\* C9: while the call of one chat is in flight, the handler of the update
\* that heads the queue for another chat can start, and a started handler
\* can append its turn and issue its own call.
C9_OtherChatsNotBlocked ==
    \A a, b \in Updates :
        (pc[a] = "calling" /\ update[b].kind = "text"
         /\ update[b].chat # update[a].chat) =>
            /\ QueueHead(b) => ENABLED RunStartProcessMessage(b)
            /\ pc[b] = "typing" => ENABLED PrepareCall(b)

\* C10: call_agent ends in one of three outcomes: for a 2xx response the
\* pair (message, id) with the placeholder and the empty string for missing
\* fields; for a timeout the timeout error; for any other failure the
\* request-failed error with the upstream detail.
C10_ThreeOutcomes ==
    pc[1] = "returned" =>
        LET r == response[1]
            o == result[1]
        IN  \/ /\ r.kind = "http" /\ r.status >= 200 /\ r.status < 300
               /\ ~o.raised
               /\ o.text = Get(r.data, "message", "No response")
               /\ o.id = Get(r.data, "id", "")
            \/ /\ r.kind = "Timeout"
               /\ o.raised /\ o.exc = "Exception"
               /\ o.text = "Request timed out. Please try again."
            \/ /\ r.kind = "ConnectionError"
                  \/ (r.kind = "http" /\ ~(r.status >= 200 /\ r.status < 300))
               /\ o.raised /\ o.exc = "Exception"
               /\ o.text = "Failed to get response from AI: " \o error_detail(r)

\* the call of u has just returned a reply
SucceedStep(u) == pc[u] = "calling" /\ pc'[u] = "replying" /\ ~result'[u].raised

\* the text process_message sends for a raised call
failure_message(res) == "Sorry, an error occurred: " \o res.text

\* C11: a handler posts at most one request to the agent endpoint, and when
\* the request fails the handler goes on to report the failure at once: it
\* posts nothing more and has no request in flight.
C11_NoRetry ==
    [][\A u \in Updates :
         /\ posts'[u] <= 1
         /\ (pc[u] = "calling" /\ pc'[u] # "calling") => posts[u] = 1
         /\ FailStep(u) =>
              /\ posts'[u] = posts[u]
              /\ payload'[u] = EmptyDict
              /\ reply'[u] = failure_message(call_agent(response'[u]))]_vars

\* a request has failed and its handler is reporting it, having posted once
C11_Witness ==
    \E u \in Updates :
        /\ pc[u] = "replying" /\ update[u].kind = "text"
        /\ result[u].raised /\ posts[u] = 1
        /\ reply[u] = failure_message(result[u])

\* C12: an error of the agent call does not stop the dispatcher: every
\* message that arrives is handled to its end and gets exactly one reply,
\* the agent's text when the call succeeded and the failure message when it
\* raised; no handler ever sends a second reply.
C12_EveryMessageAnswered ==
    /\ [](\A u \in Updates :
            /\ sent[u] <= 1
            /\ pc[u] = "done" => sent[u] = 1
            /\ (pc[u] = "replying" /\ update[u].kind = "text") =>
                  reply[u] = IF result[u].raised THEN failure_message(result[u])
                             ELSE result[u].text)
    /\ \A u \in Updates :
          (pc[u] \in {"queued", "typing", "calling", "replying"})
              ~> (pc[u] = "done" /\ sent[u] = 1)

\* a call has failed and its handler is sending the failure message while
\* a later message waits in the queue
C12_Witness ==
    \E u, v \in Updates :
        /\ pc[u] = "replying" /\ update[u].kind = "text" /\ result[u].raised
        /\ pc[v] = "queued" /\ update[v].kind = "text"

\* C13: when the chat holds no history as the handler comes to build the
\* prompt of a message (unknown chat, or chat just reset), the prompt sent
\* to the agent is the message itself, without header, transcript or label.
C13_FirstPromptIsMessage ==
    [][\A u \in Updates :
         (PrepareStep(u) /\ get_context(contexts, update[u].chat) = <<>>) =>
            payload'[u]["message"] = update[u].text]_vars

\* the assistant turn that set the parent id of chat c is no longer in its
\* history
SetterEvicted(c) ==
    /\ get_parent_id(parent_ids, c) # None
    /\ \E i \in 1..Len(appended[c]) :
          /\ appended[c][i].role = "assistant"
          /\ appended[c][i].message_id = get_parent_id(parent_ids, c)
          /\ \A j \in (i + 1)..Len(appended[c]) :
                ~(appended[c][j].role = "assistant" /\ Truthy(appended[c][j].message_id))
          /\ \A k \in 1..Len(get_context(contexts, c)) :
                get_context(contexts, c)[k] # TurnOf(appended[c][i])

\* C15: the parent id of a chat changes only by an assistant append with a
\* non-empty id for the chat, which sets it to that id, or by a reset of the
\* chat; an append that evicts the turn which set it leaves it as it is.
C15_ParentIdSurvivesEviction ==
    [][\A c \in Chats :
         get_parent_id(parent_ids', c) # get_parent_id(parent_ids, c) =>
            \E u \in Updates :
                /\ update[u].chat = c
                /\ \/ ResetStep(u) /\ get_parent_id(parent_ids', c) = None
                   \/ /\ SucceedStep(u)
                      /\ Truthy(result'[u].id)
                      /\ get_parent_id(parent_ids', c) = result'[u].id]_vars

\* a chat keeps the parent id of an assistant turn that was evicted
C15_Witness == \E c \in Chats : SetterEvicted(c)

\* the parent_message_id a request carries, None when it carries none
Carried(p) == Get(p, "parent_message_id", None)

\* C16: the request of a message carries parent_message_id exactly when the
\* store holds a non-empty parent id for the chat as the call is issued, and
\* it carries that id, which is the id of the latest successful call of the
\* chat that returned a non-empty id since the last reset (none for the
\* first call).
C16_LinearThreading ==
    [][\A u \in Updates :
         PrepareStep(u) =>
            LET p == get_parent_id(parent_ids, update[u].chat)
            IN  /\ ("parent_message_id" \in DOMAIN payload'[u]) = Truthy(p)
                /\ Truthy(p) => payload'[u]["parent_message_id"] = p
                /\ Carried(payload'[u]) = LastAssistantId(appended[update[u].chat])]_vars

\* the second call of a chat is in flight and carries the id the first
\* call returned
C16_Witness ==
    \E u \in Updates :
        /\ pc[u] = "calling"
        /\ Truthy(Carried(payload[u]))
        /\ Len(appended[update[u].chat]) = 3
        /\ appended[update[u].chat][2].message_id = Carried(payload[u])

\* C17: a reset does not cancel a call in flight: when the chat was reset
\* after the handler issued its call and the call succeeds, the assistant
\* turn is appended to the re-created chat, whose history is then that turn
\* alone, and the parent id is the reply's id when that is non-empty.
C17_ResetDoesNotCancel ==
    [][\A u \in Updates :
         (SucceedStep(u) /\ appended[update[u].chat] = <<>>) =>
            /\ get_context(contexts', update[u].chat)
                  = <<Turn("assistant", result'[u].text, now)>>
            /\ get_parent_id(parent_ids', update[u].chat)
                  = IF Truthy(result'[u].id) THEN result'[u].id ELSE None]_vars

\* a call that was in flight across a reset has succeeded: the history of
\* its chat is the assistant turn alone and the parent id is the reply's id
C17_Witness ==
    \E u \in Updates :
        /\ pc[u] = "replying" /\ update[u].kind = "text"
        /\ ~result[u].raised /\ Truthy(result[u].id)
        /\ Len(get_context(contexts, update[u].chat)) = 1
        /\ get_context(contexts, update[u].chat)[1].role = "assistant"
        /\ get_parent_id(parent_ids, update[u].chat) = result[u].id

====
